---- MODULE Spec2Model ----
(***************************************************************************)
(* Model of darts/explainability/shap_explainer.py: the ShapExplainer      *)
(* front end (construction, explain, summary_plot, force_plot_from_ts) and *)
(* the _RegressionShapExplainers helper (background matrix, handle grid,   *)
(* method selection, builder dispatch, shap_explanations).                 *)
(*                                                                         *)
(* External collaborators (create_lagged_data, the shap engines, pandas)   *)
(* are represented by what the code passes to them and reads back: a       *)
(* lagged matrix is its row count and its row index, an engine is the      *)
(* record of the constructor call that built it, and the raw result of     *)
(* invoking an engine is the record of that invocation.                    *)
(*                                                                         *)
(* Python values: None of an optional non-string value is the record       *)
(* None, a present value v is Some(v); an optional enum member is its name *)
(* or the string "None".  A str the code transforms (shap_method) is a     *)
(* sequence of one-character strings.                                      *)
(***************************************************************************)
EXTENDS Integers, Sequences, FiniteSets, TLC

VARIABLES model, status, explainer, call

vars == <<model, status, explainer, call>>

----------------------------------------------------------------------------
(* Bounds of the model                                                     *)

MaxN == 2

MaxTargetDim == 2

MaxReq == 2

MaxSeries == 2

MaxExtraRows == 2

----------------------------------------------------------------------------
(* Python helpers                                                          *)

None == [some |-> FALSE]

Some(v) == [some |-> TRUE, v |-> v]

NoKwargs == [k \in {} |-> ""]

\* dict.get(key) with the default None
KwargsGet(kwargs, key) == IF key \in DOMAIN kwargs THEN kwargs[key] ELSE "None"

\* range(k) as a sequence 0, 1, ..., k-1
Range(k) == [i \in 1..k |-> i - 1]

SeqToSet(s) == {s[i] : i \in DOMAIN s}

SeqMax(s) == CHOOSE x \in SeqToSet(s) : \A y \in SeqToSet(s) : y <= x

SeqMin(s) == CHOOSE x \in SeqToSet(s) : \A y \in SeqToSet(s) : x <= y

LowerLetters ==
    <<"a", "b", "c", "d", "e", "f", "g", "h", "i", "j", "k", "l", "m",
      "n", "o", "p", "q", "r", "s", "t", "u", "v", "w", "x", "y", "z">>

UpperLetters ==
    <<"A", "B", "C", "D", "E", "F", "G", "H", "I", "J", "K", "L", "M",
      "N", "O", "P", "Q", "R", "S", "T", "U", "V", "W", "X", "Y", "Z">>

UpperChar(c) ==
    IF \E i \in DOMAIN LowerLetters : LowerLetters[i] = c
    THEN UpperLetters[CHOOSE i \in DOMAIN LowerLetters : LowerLetters[i] = c]
    ELSE c

LowerChar(c) ==
    IF \E i \in DOMAIN UpperLetters : UpperLetters[i] = c
    THEN LowerLetters[CHOOSE i \in DOMAIN UpperLetters : UpperLetters[i] = c]
    ELSE c

\* str.upper()
StrUpper(s) == [i \in DOMAIN s |-> UpperChar(s[i])]

StrLower(s) == [i \in DOMAIN s |-> LowerChar(s[i])]

\* str.join(items): a TypeError unless every item is a str
StrJoin(items) ==
    IF \E i \in DOMAIN items : items[i].type # "str"
    THEN [raised |-> "TypeError", items |-> <<>>]
    ELSE [raised |-> "None", items |-> [i \in DOMAIN items |-> items[i].v]]

----------------------------------------------------------------------------
(* Module constants                                                        *)

MIN_BACKGROUND_SAMPLE == 10

\* class _ShapMethod(Enum): member name (as a str key and as an atom) and value
ShapMethodMembers ==
    << [name |-> "TREE",        key |-> <<"T","R","E","E">>,                          value |-> 0],
       [name |-> "GRADIENT",    key |-> <<"G","R","A","D","I","E","N","T">>,          value |-> 1],
       [name |-> "DEEP",        key |-> <<"D","E","E","P">>,                          value |-> 2],
       [name |-> "KERNEL",      key |-> <<"K","E","R","N","E","L">>,                  value |-> 3],
       [name |-> "SAMPLING",    key |-> <<"S","A","M","P","L","I","N","G">>,          value |-> 4],
       [name |-> "PARTITION",   key |-> <<"P","A","R","T","I","T","I","O","N">>,      value |-> 5],
       [name |-> "LINEAR",      key |-> <<"L","I","N","E","A","R">>,                  value |-> 6],
       [name |-> "PERMUTATION", key |-> <<"P","E","R","M","U","T","A","T","I","O","N">>, value |-> 7],
       [name |-> "ADDITIVE",    key |-> <<"A","D","D","I","T","I","V","E">>,          value |-> 8] >>

ShapMethodNames == {ShapMethodMembers[i].name : i \in DOMAIN ShapMethodMembers}

\* the names the message of the constructor's ValueError lists
InvalidShapMethodMessage ==
    << <<"p","a","r","t","i","t","i","o","n">>,
       <<"t","r","e","e">>,
       <<"k","e","r","n","e","l">>,
       <<"s","a","m","p","l","i","n","g">>,
       <<"l","i","n","e","a","r">>,
       <<"d","e","e","p">>,
       <<"g","r","a","d","i","e","n","t">>,
       <<"a","d","d","i","t","i","v","e">> >>

default_sklearn_shap_explainers ==
    [c \in {"LGBMRegressor", "CatBoostRegressor", "XGBRegressor",
            "GradientBoostingRegressor", "DecisionTreeRegressor",
            "ExtraTreeRegressor"} |-> "TREE"]
    @@
    [c \in {"AdaBoostRegressor", "BaggingRegressor", "ExtraTreesRegressor",
            "HistGradientBoostingRegressor", "RandomForestRegressor",
            "RidgeCV", "Ridge"} |-> "PERMUTATION"]
    @@
    [c \in {"LinearRegression", "ARDRegression", "MultiTaskElasticNet",
            "MultiTaskElasticNetCV", "MultiTaskLasso", "MultiTaskLassoCV",
            "PassiveAggressiveRegressor", "PoissonRegressor",
            "QuantileRegressor", "RANSACRegressor", "GammaRegressor",
            "HuberRegressor", "BayesianRidge", "SGDRegressor",
            "TheilSenRegressor", "TweedieRegressor"} |-> "LINEAR"]
    @@
    [c \in {"GaussianProcessRegressor", "KNeighborsRegressor",
            "RadiusNeighborsRegressor", "MLPRegressor"} |-> "PERMUTATION"]

----------------------------------------------------------------------------
(* _RegressionShapExplainers._build_explainer_sklearn                      *)

\* SelectShapMethod with another fallback for a class the table does not list
SelectShapMethod_permutation_fallback(model_name, shap_method) ==
    IF shap_method = "None"
    THEN IF model_name \in DOMAIN default_sklearn_shap_explainers
         THEN default_sklearn_shap_explainers[model_name]
         ELSE "PERMUTATION"
    ELSE shap_method

\* lines 561-567: the method the dispatch below works on
SelectShapMethod(model_name, shap_method) ==
    IF shap_method = "None"
    THEN IF model_name \in DOMAIN default_sklearn_shap_explainers
         THEN default_sklearn_shap_explainers[model_name]
         ELSE "KERNEL"
    ELSE shap_method

\* the message of the ValueError of the final else branch: the members'
\* values joined by ", "
UnsupportedMethodMessage ==
    StrJoin([i \in DOMAIN ShapMethodMembers |->
                [type |-> "int", v |-> ShapMethodMembers[i].value]])

\* an engine built without the caller's options
Engine_without_options(cls, fn, data, keep_index, kwargs, estimator, method) ==
    [raised |-> "None", engine |-> cls, fn |-> fn, data |-> data,
     keep_index |-> keep_index, kwargs |-> NoKwargs, estimator |-> estimator,
     method |-> method]

\* shap.<cls>(fn, data, keep_index=..., **kwargs): the engine constructed
Engine(cls, fn, data, keep_index, kwargs, estimator, method) ==
    [raised |-> "None", engine |-> cls, fn |-> fn, data |-> data,
     keep_index |-> keep_index, kwargs |-> kwargs, estimator |-> estimator,
     method |-> method]

\* estimator: the sklearn estimator handed in, [cls, horizon, target_dim]
\* (horizon = target_dim = -1 for model.model itself)
\* background_X: the matrix every engine but the default tree one is bound to
_build_explainer_sklearn(estimator, background_X, shap_method, kwargs) ==
    LET m == SelectShapMethod(estimator.cls, shap_method)
    IN  CASE m = "TREE" ->
               IF KwargsGet(kwargs, "feature_perturbation") = "interventional"
               THEN Engine("TreeExplainer", "estimator", Some(background_X),
                           FALSE, kwargs, estimator, m)
               ELSE Engine("TreeExplainer", "estimator", None,
                           FALSE, kwargs, estimator, m)
          [] m = "PERMUTATION" ->
               Engine("PermutationExplainer", "predict", Some(background_X),
                      FALSE, kwargs, estimator, m)
          [] m = "PARTITION" ->
               Engine("PermutationExplainer", "predict", Some(background_X),
                      FALSE, kwargs, estimator, m)
          [] m = "KERNEL" ->
               Engine("KernelExplainer", "predict", Some(background_X),
                      TRUE, kwargs, estimator, m)
          [] m = "LINEAR" ->
               Engine("LinearExplainer", "estimator", Some(background_X),
                      FALSE, kwargs, estimator, m)
          [] m = "DEEP" ->
               Engine("LinearExplainer", "estimator", Some(background_X),
                      FALSE, kwargs, estimator, m)
          [] m = "ADDITIVE" ->
               Engine("AdditiveExplainer", "estimator", Some(background_X),
                      FALSE, kwargs, estimator, m)
          [] OTHER ->
               \* raise ValueError("..." + ", ".join(...)): the argument of
               \* ValueError is evaluated first, and the join raises
               IF UnsupportedMethodMessage.raised # "None"
               THEN [raised |-> UnsupportedMethodMessage.raised,
                     text |-> "sequence item 0: expected str instance, int found",
                     names |-> <<>>]
               ELSE [raised |-> "ValueError",
                     text |-> "shap_method must be one of the following: ",
                     names |-> UnsupportedMethodMessage.items]

----------------------------------------------------------------------------
(* _RegressionShapExplainers._create_regression_model_shap_X               *)

\* shap.utils.sample(X, nsamples): X itself when nsamples >= len(X),
\* otherwise nsamples rows drawn from X
ShapSample(X, nsamples) ==
    IF nsamples >= X.rows
    THEN X
    ELSE [X EXCEPT !.rows = nsamples, !.sampled = TRUE]

\* A TimeSeries is [id, rows]: its name and the number of rows
\* create_lagged_data makes of it under the model's lags.
\* create_lagged_data(target_series, ...)[0]: the rows of all the series
RECURSIVE LaggedRows(_)
LaggedRows(series) ==
    IF series = <<>> THEN 0 ELSE Head(series).rows + LaggedRows(Tail(series))

\* _create_regression_model_shap_X with the threshold compared strictly
_create_regression_model_shap_X_strict(target_series, past_covariates, future_covariates, n_samples, train) ==
    LET src == [target |-> target_series, past |-> past_covariates,
                future |-> future_covariates]
        rows == LaggedRows(target_series)
        X0  == IF train
               THEN [rows |-> rows, index |-> "RangeIndex", src |-> src,
                     sampled |-> FALSE]
               ELSE [rows |-> rows, index |-> "times", src |-> src,
                     sampled |-> FALSE]
    IN  IF train /\ rows < MIN_BACKGROUND_SAMPLE
        THEN [raised |-> "ValueError",
              text |-> "The number of samples in the background dataset is too small to compute shap values.",
              X |-> X0]
        ELSE [raised |-> "None", text |-> "",
              X |-> IF n_samples.some /\ n_samples.v # 0
                    THEN ShapSample(X0, n_samples.v)
                    ELSE X0]

\* target_series: the sequence of series handed in (of one element when the
\* caller passes a single TimeSeries)
_create_regression_model_shap_X(target_series, past_covariates, future_covariates, n_samples, train) ==
    LET src == [target |-> target_series, past |-> past_covariates,
                future |-> future_covariates]
        rows == LaggedRows(target_series)
        X0  == IF train
               THEN [rows |-> rows, index |-> "RangeIndex", src |-> src,
                     sampled |-> FALSE]
               ELSE [rows |-> rows, index |-> "times", src |-> src,
                     sampled |-> FALSE]
    IN  IF train /\ rows <= MIN_BACKGROUND_SAMPLE
        THEN [raised |-> "ValueError",
              text |-> "The number of samples in the background dataset is too small to compute shap values.",
              X |-> X0]
        ELSE [raised |-> "None", text |-> "",
              X |-> IF n_samples.some /\ n_samples.v # 0
                    THEN ShapSample(X0, n_samples.v)
                    ELSE X0]

----------------------------------------------------------------------------
(* _RegressionShapExplainers.__init__                                      *)

\* get_multioutput_estimator with its two indexes exchanged
get_multioutput_estimator_swapped(m, i, j) ==
    [cls |-> m.estimator, horizon |-> j, target_dim |-> i]

\* model.get_multioutput_estimator(horizon=i, target_dim=j)
get_multioutput_estimator(m, i, j) ==
    [cls |-> m.estimator, horizon |-> i, target_dim |-> j]

\* model.model when it is not a MultiOutputRegressor
ModelEstimator(m) == [cls |-> m.estimator, horizon |-> -1, target_dim |-> -1]

\* the (i, j) pairs of the two nested loops, in the order they are visited
GridSlots(n, target_dim) ==
    [k \in 1..(n * target_dim) |->
        [i |-> (k - 1) \div target_dim, j |-> (k - 1) % target_dim]]

BlankExplainer ==
    [n |-> 0, shap_method |-> "None", target_names |-> <<>>, target_dim |-> 0,
     is_multiOutputRegressor |-> FALSE, single_output |-> FALSE,
     background_series |-> None, background_past_covariates |-> None,
     background_future_covariates |-> None,
     background_X |-> None, explainers |-> None]

\* single_output true as soon as either count is 1
SingleOutput_either(n, target_dim) == n = 1 \/ target_dim = 1

\* self.single_output: one horizon and one target component
SingleOutput(n, target_dim) == n = 1 /\ target_dim = 1

\* The state of the helper after its __init__, with the exception it raised
\* (if any), and how many matrices and handles it built on the way.
RegressionShapExplainersInit(m, n, shap_method, background_series, background_past_covariates, background_future_covariates, background_nb_samples, kwargs) ==
    LET target_dim == Len(m.target_components)
        single     == SingleOutput(n, target_dim)
        bg  == _create_regression_model_shap_X(
                   background_series.v, background_past_covariates,
                   background_future_covariates,
                   background_nb_samples, TRUE)
        base == [BlankExplainer EXCEPT
                    !.n = n, !.shap_method = shap_method,
                    !.target_names = m.target_components,
                    !.target_dim = target_dim,
                    !.is_multiOutputRegressor = m.is_multiOutputRegressor,
                    !.single_output = single,
                    !.background_series = background_series,
                    !.background_past_covariates = background_past_covariates,
                    !.background_future_covariates = background_future_covariates]
        slots == GridSlots(n, target_dim)
        built == [k \in DOMAIN slots |->
                    _build_explainer_sklearn(
                        get_multioutput_estimator(m, slots[k].i, slots[k].j),
                        bg.X, shap_method, kwargs)]
        bad   == {k \in DOMAIN slots : built[k].raised # "None"}
        first == CHOOSE k \in bad : \A k2 \in bad : k <= k2
        one   == _build_explainer_sklearn(ModelEstimator(m), bg.X,
                                          shap_method, kwargs)
    IN  IF bg.raised # "None"
        THEN [raised |-> bg.raised, text |-> bg.text, names |-> <<>>,
              lagged |-> 1, builds |-> 0, self |-> base]
        ELSE IF m.is_multiOutputRegressor
        THEN IF bad # {}
             THEN [raised |-> built[first].raised, text |-> built[first].text,
                   names |-> built[first].names,
                   lagged |-> 1, builds |-> first,
                   self |-> [base EXCEPT !.background_X = Some(bg.X)]]
             ELSE [raised |-> "None", text |-> "", names |-> <<>>,
                   lagged |-> 1, builds |-> Len(slots),
                   self |-> [base EXCEPT
                       !.background_X = Some(bg.X),
                       !.explainers =
                           [i \in 0..(n - 1) |->
                               [j \in 0..(target_dim - 1) |->
                                   built[i * target_dim + j + 1]]]]]
        ELSE IF one.raised # "None"
             THEN [raised |-> one.raised, text |-> one.text,
                   names |-> one.names, lagged |-> 1, builds |-> 1,
                   self |-> [base EXCEPT !.background_X = Some(bg.X)]]
             ELSE [raised |-> "None", text |-> "", names |-> <<>>,
                   lagged |-> 1, builds |-> 1,
                   self |-> [base EXCEPT !.background_X = Some(bg.X),
                                         !.explainers = one]]

----------------------------------------------------------------------------
(* ShapExplainer.__init__                                                  *)

\* lines 135-147: shap_method.upper() looked up in _ShapMethod.__members__
ResolveShapMethod(shap_method) ==
    IF shap_method.some
    THEN LET up == StrUpper(shap_method.v)
             hit == {i \in DOMAIN ShapMethodMembers :
                        ShapMethodMembers[i].key = up}
         IN  IF hit # {}
             THEN [raised |-> "None",
                   shap_method |-> ShapMethodMembers[CHOOSE i \in hit : TRUE].name]
             ELSE [raised |-> "ValueError", shap_method |-> "None"]
    ELSE [raised |-> "None", shap_method |-> "None"]

ShapExplainerInit(m, background_series, background_past_covariates, background_future_covariates, background_nb_samples, shap_method, kwargs) ==
    LET n   == m.output_chunk_length
        res == ResolveShapMethod(shap_method)
    IN  IF res.raised # "None"
        THEN [raised |-> res.raised,
              text |-> "Invalid shap_method. Please choose one value among the following: ",
              names |-> InvalidShapMethodMessage,
              lagged |-> 0, builds |-> 0,
              self |-> [BlankExplainer EXCEPT !.n = n]]
        ELSE RegressionShapExplainersInit(
                 m, n, res.shap_method, background_series,
                 background_past_covariates, background_future_covariates,
                 background_nb_samples, kwargs)

----------------------------------------------------------------------------
(* Inputs                                                                  *)

TargetPool == <<"a", "b", "c", "d">>

\* a target name no model has
UnknownTarget == "zz"

\* estimator class names: every key of the default table and two others
EstimatorNames == DOMAIN default_sklearn_shap_explainers \cup {"SVR", "Pipeline"}

\* one estimator per method of the default table, and an unlisted one
FewEstimatorNames == {"XGBRegressor", "LinearRegression", "SVR"}

ModelsOver(names, encodings) ==
    [output_chunk_length : 1..MaxN,
     target_components : {SubSeq(TargetPool, 1, d) : d \in 1..MaxTargetDim},
     is_multiOutputRegressor : BOOLEAN,
     encoding_available : encodings,
     estimator : names]

Capitalised(s) ==
    [i \in DOMAIN s |-> IF i = 1 THEN UpperChar(s[i]) ELSE LowerChar(s[i])]

\* shap_method arguments: every member name in lower, upper and mixed case,
\* and strings that name no member
ShapMethodArgs ==
    {None}
    \cup {Some(ShapMethodMembers[i].key) : i \in DOMAIN ShapMethodMembers}
    \cup {Some(StrLower(ShapMethodMembers[i].key)) : i \in DOMAIN ShapMethodMembers}
    \cup {Some(Capitalised(ShapMethodMembers[i].key)) : i \in DOMAIN ShapMethodMembers}
    \cup {Some(<<>>), Some(<<"t","r","e","e","s">>), Some(<<"t","r","e">>),
          Some(<<"s","h","a","p">>), Some(<<"T","R","E","E"," ">>)}

KwargsPool ==
    {NoKwargs, [k \in {"feature_perturbation"} |-> "interventional"]}

\* rows of the lagged matrix of the background series
BackgroundRows == (MIN_BACKGROUND_SAMPLE - 1)..(MIN_BACKGROUND_SAMPLE + MaxExtraRows)

NbSamplesPool ==
    {None} \cup {Some(k) : k \in {0, MIN_BACKGROUND_SAMPLE \div 2,
                                  MIN_BACKGROUND_SAMPLE + 1}}

\* the background series and covariates as ForecastingModelExplainer.__init__
\* leaves them in self: a list of series, and covariates that may be absent
BackgroundOf(rows) ==
    LET bg == [id |-> "bg1", rows |-> rows]
    IN  {[series |-> Some(<<bg>>), past |-> None, future |-> None],
         [series |-> Some(<<bg>>), past |-> Some(<<[cov |-> "past", of |-> bg]>>),
          future |-> Some(<<[cov |-> "future", of |-> bg]>>)]}

BackgroundPool == UNION {BackgroundOf(rows) : rows \in BackgroundRows}

----------------------------------------------------------------------------
(* State                                                                   *)

NoCall ==
    [op |-> "none", args |-> None, raised |-> "None", text |-> "",
     names |-> <<>>, lagged |-> 0, builds |-> 0, invoked |-> <<>>,
     result |-> None, nth |-> 0]

\* Before construction: a fitted model, no explainer yet.
InitNew ==
    /\ model \in ModelsOver(FewEstimatorNames, {FALSE})
    /\ status = "new"
    /\ explainer = BlankExplainer
    /\ call = NoCall

\* ShapExplainer(model, ...): the whole constructor, its arguments drawn from
\* the given pools
ConstructWith(bgPool, nbPool, smPool, kwPool) ==
    /\ status = "new"
    /\ \E bg \in bgPool, nb \in nbPool, sm \in smPool, kw \in kwPool :
          LET r == ShapExplainerInit(model, bg.series, bg.past, bg.future,
                                     nb, sm, kw)
          IN  /\ status' = IF r.raised = "None" THEN "ready" ELSE "failed"
              /\ explainer' = r.self
              /\ call' = [NoCall EXCEPT
                     !.op = "__init__",
                     !.args = Some([background |-> bg,
                                    background_nb_samples |-> nb,
                                    shap_method |-> sm, kwargs |-> kw]),
                     !.raised = r.raised, !.text = r.text, !.names = r.names,
                     !.lagged = r.lagged, !.builds = r.builds]
    /\ UNCHANGED model

Construct ==
    ConstructWith(BackgroundPool, NbSamplesPool, ShapMethodArgs, KwargsPool)

NextConstruct == Construct

\* Construction with every argument varied, over models of a few estimators.
SpecConstruct == InitNew /\ [][NextConstruct]_vars

\* Construction over models of every estimator class of the default table,
\* with shap_method omitted or given in lower case.
InitSelect ==
    /\ model \in ModelsOver(EstimatorNames, {FALSE})
    /\ status = "new"
    /\ explainer = BlankExplainer
    /\ call = NoCall

ConstructSelect ==
    ConstructWith(BackgroundOf(MIN_BACKGROUND_SAMPLE + 1), {None},
                  {None} \cup {Some(StrLower(ShapMethodMembers[i].key)) :
                                  i \in DOMAIN ShapMethodMembers},
                  KwargsPool)

NextSelect == ConstructSelect

SpecSelect == InitSelect /\ [][NextSelect]_vars

----------------------------------------------------------------------------
(* ShapExplainer._check_horizons_and_targets                               *)

\* _check_horizons_and_targets with the upper limit of a horizon off by one
_check_horizons_and_targets_off_by_one(self, horizons, target_names) ==
    IF target_names.some
       /\ \E i \in DOMAIN target_names.v :
             target_names.v[i] \notin SeqToSet(self.target_names)
    THEN [raised |-> "ValueError",
          text |-> "One of the target names doesn't exist. Please review your target_names input",
          horizons |-> <<>>, target_names |-> <<>>]
    ELSE LET names == IF target_names.some THEN target_names.v
                      ELSE self.target_names
         IN  IF ~horizons.some
             THEN [raised |-> "None", text |-> "",
                   horizons |-> Range(self.n), target_names |-> names]
             ELSE IF horizons.v = <<>>
             THEN [raised |-> "ValueError",
                   text |-> "max() arg is an empty sequence",
                   horizons |-> <<>>, target_names |-> <<>>]
             ELSE IF SeqMax(horizons.v) > self.n \/ SeqMin(horizons.v) < 0
             THEN [raised |-> "ValueError",
                   text |-> "One of the horizons is too large. Please review your horizons input.",
                   horizons |-> <<>>, target_names |-> <<>>]
             ELSE [raised |-> "None", text |-> "",
                   horizons |-> horizons.v, target_names |-> names]

\* horizons, target_names: None or Some(sequence)
_check_horizons_and_targets(self, horizons, target_names) ==
    IF target_names.some
       /\ \E i \in DOMAIN target_names.v :
             target_names.v[i] \notin SeqToSet(self.target_names)
    THEN [raised |-> "ValueError",
          text |-> "One of the target names doesn't exist. Please review your target_names input",
          horizons |-> <<>>, target_names |-> <<>>]
    ELSE LET names == IF target_names.some THEN target_names.v
                      ELSE self.target_names
         IN  IF ~horizons.some
             THEN [raised |-> "None", text |-> "",
                   horizons |-> Range(self.n), target_names |-> names]
             ELSE IF horizons.v = <<>>
             THEN \* max() of an empty sequence
                  [raised |-> "ValueError",
                   text |-> "max() arg is an empty sequence",
                   horizons |-> <<>>, target_names |-> <<>>]
             ELSE IF SeqMax(horizons.v) > self.n - 1 \/ SeqMin(horizons.v) < 0
             THEN [raised |-> "ValueError",
                   text |-> "One of the horizons is too large. Please review your horizons input.",
                   horizons |-> <<>>, target_names |-> <<>>]
             ELSE [raised |-> "None", text |-> "",
                   horizons |-> horizons.v, target_names |-> names]

----------------------------------------------------------------------------
(* _RegressionShapExplainers.shap_explanations                             *)

\* the (h, t_idx, t) triples of the two nested loops, in the order visited;
\* t_idx is enumerate's index, counted from 0
LoopPairs(horizons, target_names) ==
    LET w == Len(target_names)
    IN  [k \in 1..(Len(horizons) * w) |->
            [h     |-> horizons[((k - 1) \div w) + 1],
             t_idx |-> (k - 1) % w,
             t     |-> target_names[((k - 1) % w) + 1]]]

\* the raw result of invoking a handle on a matrix
Invocation(handle, slot, X) == [handle |-> handle, slot |-> slot, X |-> X]

\* length of the last axis of the joint engine's result: one output per
\* (horizon, target) pair
RawAxisLen(self) == self.n * self.target_dim

\* what the loop body does for one triple
PairEntry(self, foreground_X, p) ==
    IF self.is_multiOutputRegressor
    THEN \* self.explainers[h][t_idx](foreground_X): two dict lookups
         IF p.h \notin DOMAIN self.explainers
            \/ p.t_idx \notin DOMAIN self.explainers[p.h]
         THEN [raised |-> "KeyError"]
         ELSE [raised |-> "None",
               raw |-> Invocation(self.explainers[p.h][p.t_idx],
                                  [h |-> p.h, t_idx |-> p.t_idx], foreground_X),
               slice |-> None,
               time_index |-> foreground_X.index]
    ELSE LET raw == Invocation(self.explainers, [h |-> -1, t_idx |-> -1],
                               foreground_X)
             k   == self.target_dim * p.h + p.t_idx
             len == RawAxisLen(self)
         IN  IF ~self.single_output
             THEN \* values[:, :, k]: numpy counts a negative k from the end
                  IF k >= len \/ k < -len
                  THEN [raised |-> "IndexError"]
                  ELSE [raised |-> "None", raw |-> raw,
                        slice |-> Some(IF k < 0 THEN k + len ELSE k),
                        time_index |-> foreground_X.index]
             ELSE [raised |-> "None", raw |-> raw, slice |-> None,
                   time_index |-> foreground_X.index]

\* the index of the last occurrence of x in the sequence s
LastIndexOf(s, x) ==
    CHOOSE i \in DOMAIN s : s[i] = x /\ \A j \in DOMAIN s : s[j] = x => j <= i

shap_explanations(self, foreground_X, horizons, target_names) ==
    LET pairs   == LoopPairs(horizons, target_names)
        entries == [k \in DOMAIN pairs |-> PairEntry(self, foreground_X, pairs[k])]
        bad     == {k \in DOMAIN pairs : entries[k].raised # "None"}
        first   == CHOOSE k \in bad : \A k2 \in bad : k <= k2
        done    == IF bad = {} THEN Len(pairs) ELSE first - 1
        invoked == IF self.is_multiOutputRegressor
                   THEN [k \in 1..done |-> entries[k].raw]
                   ELSE <<Invocation(self.explainers, [h |-> -1, t_idx |-> -1],
                                     foreground_X)>>
        w       == Len(target_names)
    IN  IF bad # {}
        THEN [raised |-> entries[first].raised, invoked |-> invoked,
              result |-> None]
        ELSE [raised |-> "None", invoked |-> invoked,
              result |-> Some(
                  [h \in SeqToSet(horizons) |->
                      [t \in SeqToSet(target_names) |->
                          entries[(LastIndexOf(horizons, h) - 1) * w
                                  + LastIndexOf(target_names, t)]]])]

----------------------------------------------------------------------------
(* ShapExplainer.explain, summary_plot, force_plot_from_ts                 *)

\* A series argument is None or Some([list, items]): one TimeSeries
\* (list = FALSE, one item) or a list of them.
\* to_list: a single TimeSeries becomes a one-element list, a list and None
\* pass through
to_list(s) == IF s.some THEN Some(s.v.items) ELSE None

\* model.encoders.encode_train(target, past_covariate, future_covariate):
\* covariates generated for every target series
encode_train(target, kind) ==
    Some([list |-> target.v.list,
          items |-> [i \in DOMAIN target.v.items |->
                        [encoded |-> kind, of |-> target.v.items[i]]]])

\* the TimeSeries of an argument that is one TimeSeries, or None
Single(s) == IF s.some THEN Some(s.v.items[1]) ELSE None

\* seq[idx] for the loop index idx (counted from 0) of a covariate list that
\* may be None
Subscript(covs, idx) ==
    IF ~covs.some THEN [raised |-> "TypeError", v |-> None]
    ELSE IF idx + 1 \notin DOMAIN covs.v THEN [raised |-> "IndexError", v |-> None]
    ELSE [raised |-> "None", v |-> Some(covs.v[idx + 1])]

\* one pass of the loop over the foreground series
ExplainSeries(self, ts, past, future, idx, horizons, target_names) ==
    LET p  == Subscript(past, idx)
        f  == Subscript(future, idx)
        fX == _create_regression_model_shap_X(<<ts>>, p.v, f.v, None, FALSE)
        se == shap_explanations(self, fX.X, horizons, target_names)
    IN  IF p.raised # "None"
        THEN [raised |-> p.raised, lagged |-> 0, invoked |-> <<>>, dict |-> None]
        ELSE IF f.raised # "None"
        THEN [raised |-> f.raised, lagged |-> 0, invoked |-> <<>>, dict |-> None]
        ELSE IF fX.raised # "None"
        THEN [raised |-> fX.raised, lagged |-> 1, invoked |-> <<>>, dict |-> None]
        ELSE IF se.raised # "None"
        THEN [raised |-> se.raised, lagged |-> 1, invoked |-> se.invoked,
              dict |-> None]
        ELSE [raised |-> "None", lagged |-> 1, invoked |-> se.invoked,
              \* TimeSeries.from_times_and_values(time_index, values, columns)
              dict |-> Some(
                  [h \in SeqToSet(horizons) |->
                      [t \in SeqToSet(target_names) |->
                          [times  |-> se.result.v[h][t].time_index,
                           values |-> se.result.v[h][t]]]])]

RECURSIVE Flatten(_)
Flatten(ss) == IF ss = <<>> THEN <<>> ELSE Head(ss) \o Flatten(Tail(ss))

\* the foreground defaulting with the background covariates left out
ForegroundInputs_series_only(m, self, foreground_series, foreground_past_covariates, foreground_future_covariates) ==
    IF ~foreground_series.some
    THEN [series |-> self.background_series, past |-> None, future |-> None]
    ELSE IF m.encoding_available
    THEN [series |-> to_list(foreground_series),
          past   |-> to_list(encode_train(foreground_series, "past")),
          future |-> to_list(encode_train(foreground_series, "future"))]
    ELSE [series |-> to_list(foreground_series),
          past   |-> to_list(foreground_past_covariates),
          future |-> to_list(foreground_future_covariates)]

\* The foreground of explain: the stored background when no foreground series
\* is given; otherwise the given series, with the covariates replaced by the
\* encoders' output when the model has encoders; each turned into a list.
ForegroundInputs(m, self, foreground_series, foreground_past_covariates, foreground_future_covariates) ==
    IF ~foreground_series.some
    THEN [series |-> self.background_series,
          past   |-> self.background_past_covariates,
          future |-> self.background_future_covariates]
    ELSE IF m.encoding_available
    THEN [series |-> to_list(foreground_series),
          past   |-> to_list(encode_train(foreground_series, "past")),
          future |-> to_list(encode_train(foreground_series, "future"))]
    ELSE [series |-> to_list(foreground_series),
          past   |-> to_list(foreground_past_covariates),
          future |-> to_list(foreground_future_covariates)]

\* the return value of explain always a sequence
ExplainabilityResult_always_list(shap_values_list) ==
    [list |-> TRUE, items |-> shap_values_list]

\* The return value of explain: the one structure when the list holds one,
\* the sequence otherwise.
ExplainabilityResult(shap_values_list) ==
    IF Len(shap_values_list) = 1
    THEN [list |-> FALSE, items |-> shap_values_list]
    ELSE [list |-> TRUE, items |-> shap_values_list]

ExplainCall(m, self, foreground_series, foreground_past_covariates, foreground_future_covariates, horizons, target_names) ==
    LET fg == ForegroundInputs(m, self, foreground_series,
                               foreground_past_covariates,
                               foreground_future_covariates)
        fs == fg.series
        fp == fg.past
        ff == fg.future
        chk == _check_horizons_and_targets(self, horizons, target_names)
        steps == [k \in DOMAIN fs.v |->
                    ExplainSeries(self, fs.v[k], fp, ff, k - 1,
                                  chk.horizons, chk.target_names)]
        bad   == {k \in DOMAIN steps : steps[k].raised # "None"}
        first == CHOOSE k \in bad : \A k2 \in bad : k <= k2
        done  == IF bad = {} THEN Len(steps) ELSE first
        shap_values_list == [k \in DOMAIN steps |-> steps[k].dict.v]
    IN  IF chk.raised # "None"
        THEN [raised |-> chk.raised, text |-> chk.text, lagged |-> 0,
              invoked |-> <<>>, result |-> None]
        ELSE IF bad # {}
        THEN [raised |-> steps[first].raised, text |-> "",
              lagged |-> (first - 1) + steps[first].lagged,
              invoked |-> Flatten([k \in 1..done |-> steps[k].invoked]),
              result |-> None]
        ELSE [raised |-> "None", text |-> "", lagged |-> Len(steps),
              invoked |-> Flatten([k \in 1..done |-> steps[k].invoked]),
              result |-> Some(ExplainabilityResult(shap_values_list))]

SummaryPlotCall(self, horizons, target_names, nb_samples) ==
    LET chk == _check_horizons_and_targets(self, horizons, target_names)
        foreground_X_sampled ==
            IF nb_samples.some /\ nb_samples.v # 0
            THEN ShapSample(self.background_X.v, nb_samples.v)
            ELSE self.background_X.v
        se == shap_explanations(self, foreground_X_sampled, chk.horizons,
                                chk.target_names)
        \* one shap.summary_plot per target and horizon, targets outermost
        plots == LET hs == chk.horizons
                     ts == chk.target_names
                 IN  [k \in 1..(Len(ts) * Len(hs)) |->
                        LET t == ts[((k - 1) \div Len(hs)) + 1]
                            h == hs[((k - 1) % Len(hs)) + 1]
                        IN  [t |-> t, h |-> h, values |-> se.result.v[h][t],
                             features |-> foreground_X_sampled]]
    IN  IF chk.raised # "None"
        THEN [raised |-> chk.raised, text |-> chk.text, lagged |-> 0,
              invoked |-> <<>>, result |-> None]
        ELSE IF se.raised # "None"
        THEN [raised |-> se.raised, text |-> "", lagged |-> 0,
              invoked |-> se.invoked, result |-> None]
        ELSE [raised |-> "None", text |-> "", lagged |-> 0,
              invoked |-> se.invoked, result |-> Some(plots)]

ForcePlotCall(m, self, horizon, target_name, foreground_series, foreground_past_covariates, foreground_future_covariates) ==
    LET fp == IF m.encoding_available
              THEN encode_train(foreground_series, "past")
              ELSE foreground_past_covariates
        ff == IF m.encoding_available
              THEN encode_train(foreground_series, "future")
              ELSE foreground_future_covariates
        fX == _create_regression_model_shap_X(foreground_series.v.items,
                                              Single(fp), Single(ff),
                                              None, FALSE)
        se == shap_explanations(self, fX.X, <<horizon>>, <<target_name>>)
    IN  IF fX.raised # "None"
        THEN [raised |-> fX.raised, text |-> fX.text, lagged |-> 1,
              invoked |-> <<>>, result |-> None]
        ELSE IF se.raised # "None"
        THEN [raised |-> se.raised, text |-> "", lagged |-> 1,
              invoked |-> se.invoked, result |-> None]
        ELSE [raised |-> "None", text |-> "", lagged |-> 1,
              invoked |-> se.invoked,
              \* shap.force_plot(base_value=shap_[horizon][target_name], ...)
              result |-> Some([base_value |-> se.result.v[horizon][target_name],
                               features |-> fX.X,
                               out_names |-> target_name])]

----------------------------------------------------------------------------
(* Calls on a constructed explainer                                        *)

\* foreground series: short ones (a lagged matrix of no more than
\* MIN_BACKGROUND_SAMPLE rows) and long ones
FgPool ==
    <<[id |-> "fg1", rows |-> MIN_BACKGROUND_SAMPLE \div 2],
      [id |-> "fg2", rows |-> MIN_BACKGROUND_SAMPLE + 1],
      [id |-> "fg3", rows |-> MIN_BACKGROUND_SAMPLE],
      [id |-> "fg4", rows |-> MIN_BACKGROUND_SAMPLE + 2]>>

\* the horizons argument: omitted, or up to MaxReq distinct horizons in
\* increasing order, in range or one step out of it on either side
HorizonRequests(n) ==
    {None} \cup
    {Some(s) : s \in {q \in UNION {[1..k -> -1..n] : k \in 0..MaxReq} :
                         \A i, j \in DOMAIN q : i < j => q[i] < q[j]}}

\* the target_names argument: omitted, or up to MaxReq distinct names in any
\* order, the model's or an unknown one
TargetRequests(names) ==
    {None} \cup
    {Some(s) : s \in {q \in UNION {[1..k -> SeqToSet(names) \cup {UnknownTarget}] :
                                      k \in 0..MaxReq} :
                         \A i, j \in DOMAIN q : i # j => q[i] # q[j]}}

CovariatesOf(fs, kind) ==
    [list |-> fs.list,
     items |-> [i \in DOMAIN fs.items |-> [cov |-> kind, of |-> fs.items[i]]]]

\* one TimeSeries (a short or a long one), or a list of several
ForegroundSeries ==
    {[list |-> FALSE, items |-> <<FgPool[i]>>] : i \in {1, 2}}
    \cup {[list |-> TRUE, items |-> SubSeq(FgPool, 1, k)] : k \in 2..MaxSeries}

\* foreground series with both covariates given or both omitted
ForegroundArgs ==
    {[series |-> Some(fs), past |-> Some(CovariatesOf(fs, "past")),
      future |-> Some(CovariatesOf(fs, "future"))] : fs \in ForegroundSeries}
    \cup {[series |-> Some(fs), past |-> None, future |-> None] :
             fs \in ForegroundSeries}

Returned(op, args, r) ==
    [NoCall EXCEPT !.op = op, !.args = Some(args), !.raised = r.raised,
                   !.text = r.text, !.lagged = r.lagged,
                   !.invoked = r.invoked, !.result = r.result]

\* The three operations read the model and the explainer and write neither,
\* and none reads `call`, which only records the last call: every call that
\* can follow another can also be the first, so each behaviour makes one.
Explain ==
    /\ status = "ready"
    /\ call = NoCall
    /\ \E fg \in ForegroundArgs
                 \cup {[series |-> None, past |-> None, future |-> None]},
          horizons \in HorizonRequests(explainer.n),
          target_names \in TargetRequests(explainer.target_names) :
          call' = Returned("explain",
                      [foreground |-> fg,
                       horizons |-> horizons, target_names |-> target_names],
                      ExplainCall(model, explainer, fg.series, fg.past,
                                  fg.future, horizons, target_names))
    /\ UNCHANGED <<model, status, explainer>>

SummaryPlot ==
    /\ status = "ready"
    /\ call = NoCall
    /\ \E nb \in {None, Some(MIN_BACKGROUND_SAMPLE \div 2)},
          horizons \in HorizonRequests(explainer.n),
          target_names \in TargetRequests(explainer.target_names) :
          call' = Returned("summary_plot",
                      [nb_samples |-> nb,
                       horizons |-> horizons, target_names |-> target_names],
                      SummaryPlotCall(explainer, horizons, target_names, nb))
    /\ UNCHANGED <<model, status, explainer>>

ForcePlotFromTs ==
    /\ status = "ready"
    /\ call = NoCall
    /\ \E fg \in {a \in ForegroundArgs : ~a.series.v.list},
          horizon \in -1..explainer.n,
          target_name \in SeqToSet(explainer.target_names) \cup {UnknownTarget} :
          call' = Returned("force_plot_from_ts",
                      [foreground |-> fg,
                       horizon |-> horizon, target_name |-> target_name],
                      ForcePlotCall(model, explainer, horizon, target_name,
                                    fg.series, fg.past, fg.future))
    /\ UNCHANGED <<model, status, explainer>>

\* After construction: an explainer built with the default arguments on a
\* model of one estimator class, with or without background covariates.
Init ==
    /\ model \in ModelsOver({"LinearRegression"}, BOOLEAN)
    /\ status = "ready"
    /\ \E bg \in BackgroundOf(MIN_BACKGROUND_SAMPLE + 1) :
          LET r == ShapExplainerInit(model, bg.series, bg.past, bg.future,
                                     None, None, NoKwargs)
          IN  r.raised = "None" /\ explainer = r.self
    /\ call = NoCall

Next == Explain \/ SummaryPlot \/ ForcePlotFromTs

Spec == Init /\ [][Next]_vars

----------------------------------------------------------------------------
(* _create_regression_model_shap_X on its own: the matrix of one series,   *)
(* as background (train) or as foreground                                  *)

MatrixRows == 0..(MIN_BACKGROUND_SAMPLE + MaxExtraRows)

InitMatrix ==
    /\ model \in ModelsOver({"LinearRegression"}, {FALSE})
    /\ status = "new"
    /\ explainer = BlankExplainer
    /\ call = NoCall

CreateShapX ==
    /\ call = NoCall
    /\ \E rows \in MatrixRows, nb \in NbSamplesPool, train \in BOOLEAN,
          withCovariates \in BOOLEAN :
          LET ts == [id |-> "ts1", rows |-> rows]
              past == IF withCovariates THEN Some([cov |-> "past", of |-> ts])
                      ELSE None
              future == IF withCovariates THEN Some([cov |-> "future", of |-> ts])
                        ELSE None
              r == _create_regression_model_shap_X(<<ts>>, past, future, nb, train)
          IN  call' = [NoCall EXCEPT
                  !.op = "_create_regression_model_shap_X",
                  !.args = Some([target_series |-> <<ts>>, n_samples |-> nb,
                                 train |-> train]),
                  !.raised = r.raised, !.text = r.text, !.lagged = 1,
                  !.result = IF r.raised = "None" THEN Some(r.X) ELSE None]
    /\ UNCHANGED <<model, status, explainer>>

NextMatrix == CreateShapX

SpecMatrix == InitMatrix /\ [][NextMatrix]_vars

----------------------------------------------------------------------------
(* Properties                                                              *)

\* the model's horizon count and target components
ModelN == model.output_chunk_length

ModelTargets == model.target_components

ModelTargetDim == Len(model.target_components)

\* position of a target name among the model's target components, from 0
TargetIndex(t) == (CHOOSE i \in DOMAIN ModelTargets : ModelTargets[i] = t) - 1

\* the handles the explainer holds
Handles ==
    IF explainer.is_multiOutputRegressor
    THEN {explainer.explainers[i][j] :
             i \in DOMAIN explainer.explainers,
             j \in 0..(explainer.target_dim - 1)}
    ELSE {explainer.explainers}

\* a call of explain or summary_plot asks for a target the model does not
\* have, or for a horizon outside 0..n-1
BadRequest ==
    \/ /\ call.args.v.target_names.some
       /\ \E i \in DOMAIN call.args.v.target_names.v :
             call.args.v.target_names.v[i] \notin SeqToSet(ModelTargets)
    \/ /\ call.args.v.horizons.some
       /\ \E i \in DOMAIN call.args.v.horizons.v :
             \/ call.args.v.horizons.v[i] < 0
             \/ call.args.v.horizons.v[i] > ModelN - 1

\* C1: explain and summary_plot called with a target name the model does
\* not have, or with a horizon below 0 or above n-1, raise ValueError
\* having built no foreground matrix, invoked no engine and returned
\* nothing.
Thm_C1 ==
    (call.op \in {"explain", "summary_plot"} /\ BadRequest)
        => /\ call.raised = "ValueError"
           /\ call.lagged = 0
           /\ call.invoked = <<>>
           /\ ~call.result.some

\* explain, given foreground series and their covariates and asked for the
\* horizon n, has raised ValueError
Wit_C1 ==
    /\ call.op = "explain"
    /\ call.args.v.foreground.series.some
    /\ call.args.v.foreground.past.some
    /\ call.args.v.horizons = Some(<<ModelN>>)
    /\ call.args.v.target_names = None
    /\ call.raised = "ValueError"
    /\ call.lagged = 0

\* C2: force_plot_from_ts called with a horizon outside 0..n-1 or with a
\* target name the model does not have raises ValueError.
Cex_C2 ==
    (/\ call.op = "force_plot_from_ts"
     /\ \/ call.args.v.horizon \notin 0..(ModelN - 1)
        \/ call.args.v.target_name \notin SeqToSet(ModelTargets))
        => call.raised = "ValueError"

\* the entries shap_explanations stored under [h][t] in the calls explain or
\* summary_plot made of it, as records [h, t, entry]
StoredEntries ==
    IF call.op = "explain" /\ call.result.some
    THEN UNION {
            {[h |-> h, t |-> t, entry |-> call.result.v.items[k][h][t].values] :
                h \in DOMAIN call.result.v.items[k],
                t \in SeqToSet(IF call.args.v.target_names.some
                               THEN call.args.v.target_names.v
                               ELSE ModelTargets)} :
            k \in DOMAIN call.result.v.items}
    ELSE IF call.op = "summary_plot" /\ call.result.some
    THEN {[h |-> call.result.v[k].h, t |-> call.result.v[k].t,
           entry |-> call.result.v[k].values] : k \in DOMAIN call.result.v}
    ELSE {}

\* C3: in the joint multi-output case the explanation stored under [h][t] is
\* the slice of the raw result at target_dim * h + i, i the position of t in
\* the model's target components.
Cex_C3 ==
    (~explainer.is_multiOutputRegressor /\ ~explainer.single_output)
        => \A e \in StoredEntries :
              e.entry.slice = Some(ModelTargetDim * e.h + TargetIndex(e.t))

\* C4: in the ensemble case the explanation stored under [h][t] comes from
\* the handle of grid slot [h][i], built from the estimator of horizon h and
\* target i, i the position of t in the model's target components.
Cex_C4 ==
    explainer.is_multiOutputRegressor
        => \A e \in StoredEntries :
              /\ e.entry.raw.slot = [h |-> e.h, t_idx |-> TargetIndex(e.t)]
              /\ e.entry.raw.handle = explainer.explainers[e.h][TargetIndex(e.t)]
              /\ e.entry.raw.handle.estimator =
                     get_multioutput_estimator(model, e.h, TargetIndex(e.t))

\* the arguments of the constructor call
CtorArgs == call.args.v

\* the member a shap_method string names, whatever its letter case
NamedMembers(str) ==
    {i \in DOMAIN ShapMethodMembers : ShapMethodMembers[i].key = StrUpper(str)}

\* estimator classes by the family the default table files them under
TreeFamily ==
    {"LGBMRegressor", "CatBoostRegressor", "XGBRegressor",
     "GradientBoostingRegressor", "DecisionTreeRegressor", "ExtraTreeRegressor"}

LinearFamily ==
    {"LinearRegression", "ARDRegression", "MultiTaskElasticNet",
     "MultiTaskElasticNetCV", "MultiTaskLasso", "MultiTaskLassoCV",
     "PassiveAggressiveRegressor", "PoissonRegressor", "QuantileRegressor",
     "RANSACRegressor", "GammaRegressor", "HuberRegressor", "BayesianRidge",
     "SGDRegressor", "TheilSenRegressor", "TweedieRegressor"}

PermutationFamily ==
    {"AdaBoostRegressor", "BaggingRegressor", "ExtraTreesRegressor",
     "HistGradientBoostingRegressor", "RandomForestRegressor", "RidgeCV",
     "Ridge", "GaussianProcessRegressor", "KNeighborsRegressor",
     "RadiusNeighborsRegressor", "MLPRegressor"}

\* C5: every handle a successful construction built was built with the
\* explicit method when one was given, whatever the estimator class, and
\* otherwise with the method the default table gives the estimator's class
\* (TREE for the tree family, LINEAR for the linear family, PERMUTATION for
\* the ensemble, neighbour and neural family), KERNEL for an unlisted class.
Thm_C5 ==
    (call.op = "__init__" /\ status = "ready")
        => \A hd \in Handles :
              LET cls == hd.estimator.cls
              IN  IF CtorArgs.shap_method.some
                  THEN \E i \in NamedMembers(CtorArgs.shap_method.v) :
                          hd.method = ShapMethodMembers[i].name
                  ELSE /\ cls \in DOMAIN default_sklearn_shap_explainers
                            => hd.method = default_sklearn_shap_explainers[cls]
                       /\ cls \in TreeFamily => hd.method = "TREE"
                       /\ cls \in LinearFamily => hd.method = "LINEAR"
                       /\ cls \in PermutationFamily => hd.method = "PERMUTATION"
                       /\ cls \notin TreeFamily \cup LinearFamily
                                     \cup PermutationFamily
                            => hd.method = "KERNEL"

\* an explainer built without shap_method on a model of an unlisted
\* estimator class holds a KERNEL handle
Wit_C5 ==
    /\ call.op = "__init__"
    /\ status = "ready"
    /\ ~CtorArgs.shap_method.some
    /\ model.estimator = "SVR"
    /\ \E hd \in Handles : hd.method = "KERNEL" /\ hd.estimator.cls = "SVR"

\* the slots of the handle grid
GridKeys ==
    UNION {{<<i, j>> : j \in DOMAIN explainer.explainers[i]} :
              i \in DOMAIN explainer.explainers}

\* C6: after a successful construction on a MultiOutputRegressor model the
\* explainer holds n * target_dim handles, one per (horizon, target index)
\* pair, each built from get_multioutput_estimator(horizon, target index);
\* on any other model it holds one handle, built from the model's estimator.
Thm_C6 ==
    (call.op = "__init__" /\ status = "ready")
        => IF model.is_multiOutputRegressor
           THEN /\ DOMAIN explainer.explainers = 0..(ModelN - 1)
                /\ \A i \in 0..(ModelN - 1) :
                      /\ DOMAIN explainer.explainers[i] = 0..(ModelTargetDim - 1)
                      /\ \A j \in 0..(ModelTargetDim - 1) :
                            explainer.explainers[i][j].estimator =
                                [cls |-> model.estimator, horizon |-> i,
                                 target_dim |-> j]
                /\ Cardinality(GridKeys) = ModelN * ModelTargetDim
                /\ call.builds = ModelN * ModelTargetDim
           ELSE /\ explainer.explainers.estimator =
                       [cls |-> model.estimator, horizon |-> -1,
                        target_dim |-> -1]
                /\ call.builds = 1

\* a MultiOutputRegressor model of two horizons and two targets has been
\* given its explainer
Wit_C6 ==
    /\ call.op = "__init__"
    /\ status = "ready"
    /\ model.is_multiOutputRegressor
    /\ ModelN = 2
    /\ ModelTargetDim = 2
    /\ call.builds = 4

\* C7: the background matrix (train) is refused with ValueError when the
\* lagged matrix has MIN_BACKGROUND_SAMPLE rows or fewer and is built when it
\* has more; a foreground matrix is built whatever its row count.
Thm_C7 ==
    call.op = "_create_regression_model_shap_X"
        => LET rows == LaggedRows(call.args.v.target_series)
           IN  /\ (call.args.v.train /\ rows <= MIN_BACKGROUND_SAMPLE)
                     => (call.raised = "ValueError" /\ ~call.result.some)
               /\ (call.args.v.train /\ rows >= MIN_BACKGROUND_SAMPLE + 1)
                     => (call.raised = "None" /\ call.result.some)
               /\ ~call.args.v.train
                     => (call.raised = "None" /\ call.result.some)

\* a background matrix of exactly MIN_BACKGROUND_SAMPLE rows has been refused
Wit_C7 ==
    /\ call.op = "_create_regression_model_shap_X"
    /\ call.args.v.train
    /\ LaggedRows(call.args.v.target_series) = MIN_BACKGROUND_SAMPLE
    /\ call.raised = "ValueError"

\* C8: after a successful construction, whatever background_nb_samples was,
\* the stored background matrix, and the one each handle is bound to, has
\* more than MIN_BACKGROUND_SAMPLE rows.
Cex_C8 ==
    (call.op = "__init__" /\ status = "ready")
        => /\ explainer.background_X.v.rows > MIN_BACKGROUND_SAMPLE
           /\ \A hd \in Handles :
                 hd.data.some => hd.data.v.rows > MIN_BACKGROUND_SAMPLE

\* C9: a construction whose method resolves to GRADIENT or SAMPLING and that
\* reaches the builder fails with a ValueError whose message enumerates the
\* method names, and leaves no handle.
Cex_C9 ==
    (/\ call.op = "__init__"
     /\ CtorArgs.shap_method.some
     /\ \E i \in NamedMembers(CtorArgs.shap_method.v) :
           ShapMethodMembers[i].name \in {"GRADIENT", "SAMPLING"}
     /\ call.builds > 0)
        => /\ call.raised = "ValueError"
           /\ call.names # <<>>
           /\ status = "failed"
           /\ explainer.explainers = None

\* C10: an explicit shap_method naming one of the nine members in any letter
\* case resolves to that member; any other string makes the construction
\* fail with a ValueError whose message lists every member's name, before
\* the background matrix or any handle is built.
Cex_C10 ==
    (call.op = "__init__" /\ CtorArgs.shap_method.some)
        => IF NamedMembers(CtorArgs.shap_method.v) # {}
           THEN \E i \in NamedMembers(CtorArgs.shap_method.v) :
                   explainer.shap_method = ShapMethodMembers[i].name
           ELSE /\ call.raised = "ValueError"
                /\ status = "failed"
                /\ call.lagged = 0
                /\ call.builds = 0
                /\ \A i \in DOMAIN ShapMethodMembers :
                      \E k \in DOMAIN call.names :
                         StrUpper(call.names[k]) = ShapMethodMembers[i].key

----------------------------------------------------------------------------
(* explain: the default foreground and absent covariates                   *)

\* the arguments of the last call
CallArgs == call.args.v

\* a stored list of series as an argument of explain
AsArgument(stored) ==
    IF stored.some THEN Some([list |-> TRUE, items |-> stored.v]) ELSE None

\* explain called with the stored background series and covariates as its
\* foreground, for the horizons and target names of the last call
ExplainBackground ==
    ExplainCall(model, explainer,
                AsArgument(explainer.background_series),
                AsArgument(explainer.background_past_covariates),
                AsArgument(explainer.background_future_covariates),
                CallArgs.horizons, CallArgs.target_names)

DefaultForeground ==
    /\ call.op = "explain"
    /\ ~CallArgs.foreground.series.some

\* C11 as stated: explain with no foreground gives the result of explain
\* called with the background series and covariates, on every model.
Cex_C11 ==
    DefaultForeground
        => /\ call.raised = ExplainBackground.raised
           /\ call.result = ExplainBackground.result

\* C11: on a model without encoders, explain with no foreground uses the
\* background series and the background covariates, and its outcome is that
\* of explain called with them for the same horizons and target names. (With
\* encoders the explicit call replaces the covariates by the encoders'
\* output, the call without foreground uses the stored ones as they are.)
Thm_C11 ==
    (DefaultForeground /\ ~model.encoding_available)
        => /\ call.raised = ExplainBackground.raised
           /\ call.result = ExplainBackground.result
           /\ call.invoked = ExplainBackground.invoked

Wit_C11 ==
    /\ DefaultForeground
    /\ ~model.encoding_available
    /\ call.raised = "None"
    /\ call.result.some
    /\ \A k \in DOMAIN call.invoked :
          call.invoked[k].X.src =
              [target |-> <<explainer.background_series.v[1]>>,
               past   |-> Some(explainer.background_past_covariates.v[1]),
               future |-> Some(explainer.background_future_covariates.v[1])]

\* C12: explain with foreground series and no covariates, on a model without
\* encoders, builds the matrix of every series and returns explanations
\* (the request being valid); it does not fail for the missing covariates.
Cex_C12 ==
    (/\ call.op = "explain"
     /\ CallArgs.foreground.series.some
     /\ ~CallArgs.foreground.past.some
     /\ ~CallArgs.foreground.future.some
     /\ ~model.encoding_available
     /\ ~BadRequest
     /\ CallArgs.horizons # Some(<<>>))
        => /\ call.raised = "None"
           /\ call.lagged = Len(CallArgs.foreground.series.v.items)
           /\ call.result.some

----------------------------------------------------------------------------
(* _create_regression_model_shap_X: the column names of the matrix         *)

MaxLags == 2

MaxCovDim == 2

Digits == <<"0", "1", "2", "3", "4", "5", "6", "7", "8", "9">>

\* str(i) of an int
RECURSIVE NatStr(_)
NatStr(n) ==
    IF n < Len(Digits) THEN <<Digits[n + 1]>>
    ELSE NatStr(n \div Len(Digits)) \o <<Digits[(n % Len(Digits)) + 1]>>

IntStr(i) == IF i < 0 THEN <<"-">> \o NatStr(-i) ELSE NatStr(i)

TargetLagMarker == <<"_", "t", "a", "r", "g", "e", "t", "_", "l", "a", "g">>

PastCovLagMarker == <<"_", "p", "a", "s", "t", "_", "c", "o", "v", "_", "l", "a", "g">>

FutCovLagMarker == <<"_", "f", "u", "t", "_", "c", "o", "v", "_", "l", "a", "g">>

\* the two loops with the component outside and the lag inside
LagNames_component_major(lags_list, names, marker) ==
    IF ~lags_list.some \/ lags_list.v = <<>> THEN <<>>
    ELSE Flatten([j \in DOMAIN names |->
                     [i \in DOMAIN lags_list.v |->
                         names[j] \o marker \o IntStr(lags_list.v[i])]])

\* if lags_list: for lag in lags_list: for t_name in names:
\*     lags_names_list.append(t_name + marker + str(lag))
LagNames(lags_list, names, marker) ==
    IF ~lags_list.some \/ lags_list.v = <<>> THEN <<>>
    ELSE Flatten([i \in DOMAIN lags_list.v |->
                     [j \in DOMAIN names |->
                         names[j] \o marker \o IntStr(lags_list.v[i])]])

lags_names_list(lags, target_names, past_covariates_names, future_covariates_names) ==
    LagNames(lags.target, target_names, TargetLagMarker)
    \o LagNames(lags.past, past_covariates_names, PastCovLagMarker)
    \o LagNames(lags.future, future_covariates_names, FutCovLagMarker)

\* The columns create_lagged_data returns: one for every lag of every
\* component, of the target, the past and the future covariates; pd.DataFrame
\* numbers them from 0.
LaggedColumns(lags, target_names, past_covariates_names, future_covariates_names) ==
    LET count(l, names) == IF l.some THEN Len(l.v) * Len(names) ELSE 0
        total == count(lags.target, target_names)
                 + count(lags.past, past_covariates_names)
                 + count(lags.future, future_covariates_names)
    IN  [idx \in 1..total |-> idx - 1]

\* X.rename(columns={name: lags_names_list[idx] for idx, name in
\*                   enumerate(X.columns.to_list())})
RenameColumns(columns, names) ==
    IF Len(columns) > Len(names)
    THEN [raised |-> "IndexError", columns |-> None]
    ELSE [raised |-> "None",
          columns |-> Some([idx \in DOMAIN columns |-> names[idx]])]

\* model.lags of each kind: absent, or a list of lags; the component names
\* of the target, of the past and of the future covariates
TargetLagPool == <<-2, -1, -12, -3>>

PastLagPool == <<-1, -3, -2, -10>>

FutureLagPool == <<0, -1, 1, 11>>

LagsOf(pool) == {None} \cup {Some(SubSeq(pool, 1, k)) : k \in 0..MaxLags}

TargetNamePool == << <<"a">>, <<"b">>, <<"c">>, <<"d">> >>

PastNamePool == << <<"a">>, <<"p">>, <<"b", "_", "t", "a", "r", "g", "e", "t">>, <<"q">> >>

FutureNamePool == << <<"a">>, <<"f">>, <<"p", "_", "p", "a", "s", "t">>, <<"g">> >>

NamesOf(pool, max) == {SubSeq(pool, 1, k) : k \in 1..max}

InitColumns ==
    /\ model \in ModelsOver({"LinearRegression"}, {FALSE})
    /\ status = "new"
    /\ explainer = BlankExplainer
    /\ call = NoCall

\* the naming of the columns at the end of _create_regression_model_shap_X
NameColumns ==
    /\ call = NoCall
    /\ \E lt \in LagsOf(TargetLagPool), lp \in LagsOf(PastLagPool),
          lf \in LagsOf(FutureLagPool),
          tn \in NamesOf(TargetNamePool, MaxTargetDim),
          pn \in NamesOf(PastNamePool, MaxCovDim),
          fn \in NamesOf(FutureNamePool, MaxCovDim) :
          LET lags == [target |-> lt, past |-> lp, future |-> lf]
              r == RenameColumns(LaggedColumns(lags, tn, pn, fn),
                                 lags_names_list(lags, tn, pn, fn))
          IN  call' = [NoCall EXCEPT
                  !.op = "_create_regression_model_shap_X.columns",
                  !.args = Some([lags |-> lags, target_names |-> tn,
                                 past_covariates_names |-> pn,
                                 future_covariates_names |-> fn]),
                  !.raised = r.raised, !.result = r.columns]
    /\ UNCHANGED <<model, status, explainer>>

NextColumns == NameColumns

SpecColumns == InitColumns /\ [][NextColumns]_vars

\* the number of columns of one kind
BlockLen(lags_list, names) ==
    IF lags_list.some THEN Len(lags_list.v) * Len(names) ELSE 0

\* the name at place p (from 0) of one kind's block: lags outside,
\* components inside
NameAt(lags_list, names, marker, p) ==
    names[(p % Len(names)) + 1] \o marker
        \o IntStr(lags_list.v[(p \div Len(names)) + 1])

NamedColumns ==
    /\ call.op = "_create_regression_model_shap_X.columns"
    /\ call.raised = "None"

\* C13: the columns of the matrix are named by position: the target lags
\* first, lag by lag and within a lag component by component, as
\* {component}_target_lag{lag}; then the past covariate lags likewise as
\* {component}_past_cov_lag{lag}; then the future covariate lags as
\* {component}_fut_cov_lag{lag}. With distinct component names and distinct
\* lags within each kind the names are all distinct, and there are
\* |target lags|*|targets| + |past lags|*|past components|
\* + |future lags|*|future components| of them.
Thm_C13 ==
    NamedColumns =>
        LET a    == CallArgs
            cols == call.result.v
            nT   == BlockLen(a.lags.target, a.target_names)
            nP   == BlockLen(a.lags.past, a.past_covariates_names)
            nF   == BlockLen(a.lags.future, a.future_covariates_names)
        IN  /\ Len(cols) = nT + nP + nF
            /\ \A p \in 0..(nT - 1) :
                  cols[p + 1] = NameAt(a.lags.target, a.target_names,
                                       TargetLagMarker, p)
            /\ \A p \in 0..(nP - 1) :
                  cols[nT + p + 1] = NameAt(a.lags.past, a.past_covariates_names,
                                            PastCovLagMarker, p)
            /\ \A p \in 0..(nF - 1) :
                  cols[nT + nP + p + 1] =
                      NameAt(a.lags.future, a.future_covariates_names,
                             FutCovLagMarker, p)
            /\ \A i, j \in DOMAIN cols : i # j => cols[i] # cols[j]

Wit_C13 ==
    /\ NamedColumns
    /\ CallArgs.lags.target.some /\ Len(CallArgs.lags.target.v) > 1
    /\ Len(CallArgs.target_names) > 1
    /\ CallArgs.lags.past.some /\ Len(CallArgs.lags.past.v) > 1
    /\ Len(CallArgs.past_covariates_names) > 1
    /\ CallArgs.lags.future.some /\ CallArgs.lags.future.v # <<>>
    /\ Len(call.result.v) > Len(CallArgs.lags.target.v) * Len(CallArgs.target_names)
    /\ call.result.v[2] = <<"b">> \o TargetLagMarker \o <<"-", "2">>

----------------------------------------------------------------------------
(* get_shared_times_bounds, as its tests describe it                       *)

MaxArgs == 3

\* A TimeSeries or a time index with a start, a step and a length; the
\* length can be 0.
TimesOf(kind, start, freq, length) ==
    [kind |-> kind, start |-> start, freq |-> freq, length |-> length]

start_time(val) == val.start

end_time(val) == val.start + (val.length - 1) * val.freq

\* the bounds with a single shared time point not counted as overlap
get_shared_times_bounds_strict(series_or_times) ==
    LET given == SelectSeq(series_or_times, LAMBDA val : val.some)
        lb == SeqMax([i \in DOMAIN given |-> start_time(given[i].v)])
        ub == SeqMin([i \in DOMAIN given |-> end_time(given[i].v)])
    IN  IF given = <<>> THEN None
        ELSE IF \E i \in DOMAIN given : given[i].v.length = 0 THEN None
        ELSE IF lb >= ub THEN None
        ELSE Some(<<lb, ub>>)

\* get_shared_times_bounds(*series_or_times): the latest start and the
\* earliest end of the arguments that are not None, or None
get_shared_times_bounds(series_or_times) ==
    LET given == SelectSeq(series_or_times, LAMBDA val : val.some)
        lb == SeqMax([i \in DOMAIN given |-> start_time(given[i].v)])
        ub == SeqMin([i \in DOMAIN given |-> end_time(given[i].v)])
    IN  IF given = <<>> THEN None
        ELSE IF \E i \in DOMAIN given : given[i].v.length = 0 THEN None
        ELSE IF lb > ub THEN None
        ELSE Some(<<lb, ub>>)

\* the series and time indexes of the tests, on an integer index
TimesPool ==
    {None,
     Some(TimesOf("series", 0, 1, 5)), Some(TimesOf("series", 0, 1, 1)),
     Some(TimesOf("series", 0, 1, 3)), Some(TimesOf("series", 2, 2, 2)),
     Some(TimesOf("series", 5, 2, 6)), Some(TimesOf("series", 0, 1, 0)),
     Some(TimesOf("series", 2, 1, 5)), Some(TimesOf("series", 1, 2, 10)),
     Some(TimesOf("series", 0, 3, 20)),
     Some(TimesOf("times", 0, 1, 11)), Some(TimesOf("times", 2, 2, 8)),
     Some(TimesOf("times", 0, 1, 0))}

InitBounds ==
    /\ model \in ModelsOver({"LinearRegression"}, {FALSE})
    /\ model.output_chunk_length = 1
    /\ Len(model.target_components) = 1
    /\ status = "new"
    /\ explainer = BlankExplainer
    /\ call = NoCall

SharedTimesBounds ==
    /\ call = NoCall
    /\ \E k \in 1..MaxArgs :
          \E series_or_times \in [1..k -> TimesPool] :
             call' = [NoCall EXCEPT
                         !.op = "get_shared_times_bounds",
                         !.args = Some(series_or_times),
                         !.result = get_shared_times_bounds(series_or_times)]
    /\ UNCHANGED <<model, status, explainer>>

NextBounds == SharedTimesBounds

SpecBounds == InitBounds /\ [][NextBounds]_vars

\* the arguments of the last call that are not None
GivenTimes == {CallArgs[i].v : i \in {j \in DOMAIN CallArgs : CallArgs[j].some}}

\* the inputs share at least one point of time
Overlapping ==
    /\ GivenTimes # {}
    /\ \A val \in GivenTimes : val.length > 0
    /\ \A v1, v2 \in GivenTimes : start_time(v1) <= end_time(v2)

----------------------------------------------------------------------------
(* Sequences of calls on one explainer                                     *)

MaxCalls == 2

\* requests of each sort: the default, a valid one, an invalid one
FewHorizons(n) == {None, Some(<<0>>), Some(<<n>>)}

FewTargets(names) ==
    {None, Some(<<names[Len(names)]>>), Some(<<UnknownTarget>>)}

\* no foreground, one series with its covariates, one series without
FewForegrounds ==
    LET fs == [list |-> FALSE, items |-> <<FgPool[2]>>]
    IN  {[series |-> None, past |-> None, future |-> None],
         [series |-> Some(fs), past |-> Some(CovariatesOf(fs, "past")),
          future |-> Some(CovariatesOf(fs, "future"))],
         [series |-> Some(fs), past |-> None, future |-> None]}

\* the call record of the next call in a sequence
NextReturned(op, args, r) ==
    [Returned(op, args, r) EXCEPT !.nth = call.nth + 1]

ExplainAgain ==
    /\ status = "ready"
    /\ call.nth < MaxCalls
    /\ \E fg \in FewForegrounds,
          horizons \in FewHorizons(explainer.n),
          target_names \in FewTargets(explainer.target_names) :
          call' = NextReturned("explain",
                      [foreground |-> fg,
                       horizons |-> horizons, target_names |-> target_names],
                      ExplainCall(model, explainer, fg.series, fg.past,
                                  fg.future, horizons, target_names))
    /\ UNCHANGED <<model, status, explainer>>

\* summary_plot keeping the sampled matrix as the background matrix
SummaryPlotAgain_keeps_sample ==
    /\ status = "ready"
    /\ call.nth < MaxCalls
    /\ \E nb \in {None, Some(MIN_BACKGROUND_SAMPLE \div 2)},
          horizons \in FewHorizons(explainer.n),
          target_names \in FewTargets(explainer.target_names) :
          /\ call' = NextReturned("summary_plot",
                      [nb_samples |-> nb,
                       horizons |-> horizons, target_names |-> target_names],
                      SummaryPlotCall(explainer, horizons, target_names, nb))
          /\ explainer' =
                IF nb.some
                THEN [explainer EXCEPT !.background_X =
                         Some(ShapSample(explainer.background_X.v, nb.v))]
                ELSE explainer
    /\ UNCHANGED <<model, status>>

SummaryPlotAgain ==
    /\ status = "ready"
    /\ call.nth < MaxCalls
    /\ \E nb \in {None, Some(MIN_BACKGROUND_SAMPLE \div 2)},
          horizons \in FewHorizons(explainer.n),
          target_names \in FewTargets(explainer.target_names) :
          call' = NextReturned("summary_plot",
                      [nb_samples |-> nb,
                       horizons |-> horizons, target_names |-> target_names],
                      SummaryPlotCall(explainer, horizons, target_names, nb))
    /\ UNCHANGED <<model, status, explainer>>

ForcePlotFromTsAgain ==
    /\ status = "ready"
    /\ call.nth < MaxCalls
    /\ \E fg \in {a \in FewForegrounds : a.series.some},
          horizon \in {0, explainer.n},
          target_name \in {explainer.target_names[1], UnknownTarget} :
          call' = NextReturned("force_plot_from_ts",
                      [foreground |-> fg,
                       horizon |-> horizon, target_name |-> target_name],
                      ForcePlotCall(model, explainer, horizon, target_name,
                                    fg.series, fg.past, fg.future))
    /\ UNCHANGED <<model, status, explainer>>

NextCalls == ExplainAgain \/ SummaryPlotAgain \/ ForcePlotFromTsAgain

SpecCalls == Init /\ [][NextCalls]_vars

\* C15: every step of a sequence of explain, summary_plot and
\* force_plot_from_ts calls, whether the call succeeds or fails, leaves the
\* handles, the background matrix, the resolved method, n,
\* is_multiOutputRegressor and single_output as they were, and builds no
\* handle.
Thm_C15 ==
    [][/\ explainer'.explainers = explainer.explainers
       /\ explainer'.background_X = explainer.background_X
       /\ explainer'.shap_method = explainer.shap_method
       /\ explainer'.n = explainer.n
       /\ explainer'.is_multiOutputRegressor = explainer.is_multiOutputRegressor
       /\ explainer'.single_output = explainer.single_output
       /\ call'.builds = 0]_vars

\* a failed call made after another call
Wit_C15 ==
    /\ call.nth = MaxCalls
    /\ call.op = "summary_plot"
    /\ call.raised = "ValueError"
    /\ status = "ready"
    /\ explainer.background_X.some

----------------------------------------------------------------------------
(* shap_explanations: the engine invocations of a call                     *)

\* the horizons and target names a successful explain or summary_plot asked
\* shap_explanations for
RequestedHorizons ==
    IF CallArgs.horizons.some THEN SeqToSet(CallArgs.horizons.v)
    ELSE 0..(ModelN - 1)

RequestedTargets ==
    IF CallArgs.target_names.some THEN SeqToSet(CallArgs.target_names.v)
    ELSE SeqToSet(ModelTargets)

\* the number of shap_explanations calls a successful call made: one per
\* foreground series, one for a summary plot
ExplanationRuns ==
    IF call.op = "explain" THEN Len(call.result.v.items) ELSE 1

\* C16: in the joint case every shap_explanations call invokes the single
\* handle once, on the whole foreground matrix, however many horizons and
\* targets are requested, and every stored entry derives from that raw
\* result; in the ensemble case a call invokes one handle per requested
\* (horizon, target) pair and no handle of a pair that was not requested.
Cex_C16 ==
    (call.op \in {"explain", "summary_plot"} /\ call.result.some)
        => IF ~explainer.is_multiOutputRegressor
           THEN /\ Len(call.invoked) = ExplanationRuns
                /\ \A k \in DOMAIN call.invoked :
                      call.invoked[k].handle = explainer.explainers
                /\ \A e \in StoredEntries :
                      \E k \in DOMAIN call.invoked :
                         e.entry.raw = call.invoked[k]
           ELSE /\ Len(call.invoked) =
                      ExplanationRuns * Cardinality(RequestedHorizons)
                                      * Cardinality(RequestedTargets)
                /\ \A k \in DOMAIN call.invoked :
                      \E h \in RequestedHorizons, t \in RequestedTargets :
                         /\ call.invoked[k].handle =
                                explainer.explainers[h][TargetIndex(t)]
                         /\ call.invoked[k].handle.estimator =
                                get_multioutput_estimator(model, h, TargetIndex(t))

----------------------------------------------------------------------------
(* The engine of each method, single_output, and the shape of the result   *)

\* the options ask for an interventional tree engine
Interventional(kwargs) ==
    /\ "feature_perturbation" \in DOMAIN kwargs
    /\ kwargs["feature_perturbation"] = "interventional"

\* C17: every handle built is the engine of its method: TREE a tree engine
\* over the estimator, bound to the background matrix exactly when the
\* options hold feature_perturbation = "interventional"; PERMUTATION and
\* PARTITION a permutation engine over the predict function and the
\* background matrix; KERNEL a kernel engine over the predict function and
\* the background matrix with keep_index set; LINEAR and DEEP a linear
\* engine, ADDITIVE an additive engine, over the estimator and the
\* background matrix; the caller's options are forwarded in every case.
Thm_C17 ==
    (call.op = "__init__" /\ status = "ready")
        => \A hd \in Handles :
              /\ hd.kwargs = CtorArgs.kwargs
              /\ hd.method = "TREE" =>
                    /\ hd.engine = "TreeExplainer" /\ hd.fn = "estimator"
                    /\ hd.data = IF Interventional(CtorArgs.kwargs)
                                 THEN explainer.background_X ELSE None
              /\ hd.method \in {"PERMUTATION", "PARTITION"} =>
                    /\ hd.engine = "PermutationExplainer" /\ hd.fn = "predict"
                    /\ hd.data = explainer.background_X /\ ~hd.keep_index
              /\ hd.method = "KERNEL" =>
                    /\ hd.engine = "KernelExplainer" /\ hd.fn = "predict"
                    /\ hd.data = explainer.background_X /\ hd.keep_index
              /\ hd.method \in {"LINEAR", "DEEP"} =>
                    /\ hd.engine = "LinearExplainer" /\ hd.fn = "estimator"
                    /\ hd.data = explainer.background_X
              /\ hd.method = "ADDITIVE" =>
                    /\ hd.engine = "AdditiveExplainer" /\ hd.fn = "estimator"
                    /\ hd.data = explainer.background_X
              /\ hd.method \in {"TREE", "PERMUTATION", "PARTITION", "KERNEL",
                                "LINEAR", "DEEP", "ADDITIVE"}
              /\ explainer.background_X.some

\* an interventional tree engine, bound to the background matrix and given
\* the options
Wit_C17 ==
    /\ call.op = "__init__"
    /\ status = "ready"
    /\ Interventional(CtorArgs.kwargs)
    /\ \E hd \in Handles :
          /\ hd.method = "TREE"
          /\ hd.data = explainer.background_X
          /\ hd.kwargs = CtorArgs.kwargs

\* C18: single_output is true exactly when n is 1 and the target dimension
\* is 1; in the joint case with single_output the entry stored for horizon 0
\* is the engine's raw result, not sliced; in the joint case without
\* single_output no stored entry is the raw result itself.
Thm_C18 ==
    /\ explainer.single_output = (ModelN = 1 /\ ModelTargetDim = 1)
    /\ ~explainer.is_multiOutputRegressor =>
          \A e \in StoredEntries :
             /\ e.entry.raw = Invocation(explainer.explainers,
                                         [h |-> -1, t_idx |-> -1], e.entry.raw.X)
             /\ IF explainer.single_output
                THEN e.h = 0 => e.entry.slice = None
                ELSE e.entry.slice # None

Wit_C18 ==
    /\ ~explainer.is_multiOutputRegressor
    /\ explainer.single_output
    /\ call.op = "explain"
    /\ \E e \in StoredEntries : e.h = 0 /\ e.entry.slice = None

\* the foreground series of an explain call, the background when omitted
ExplainedSeries ==
    IF CallArgs.foreground.series.some
    THEN CallArgs.foreground.series.v.items
    ELSE explainer.background_series.v

\* C19: the structure explain produces for a foreground series has exactly
\* the requested horizons as its keys (0..n-1 when omitted) and, under each,
\* exactly the requested target names (the model's components when
\* omitted); explain returns that one structure when one foreground series
\* is given, otherwise a sequence of them, one per series, in input order.
Thm_C19 ==
    (call.op = "explain" /\ call.result.some)
        => /\ Len(call.result.v.items) = Len(ExplainedSeries)
           /\ call.result.v.list = (Len(ExplainedSeries) # 1)
           /\ \A k \in DOMAIN call.result.v.items :
                 LET d == call.result.v.items[k]
                 IN  /\ DOMAIN d = RequestedHorizons
                     /\ \A h \in DOMAIN d :
                           /\ DOMAIN d[h] = RequestedTargets
                           /\ \A t \in DOMAIN d[h] :
                                 d[h][t].values.raw.X.src.target
                                     = <<ExplainedSeries[k]>>

\* two series explained for one of two horizons and one of two targets
Wit_C19 ==
    /\ call.op = "explain"
    /\ call.result.some
    /\ call.result.v.list
    /\ Len(call.result.v.items) = MaxSeries
    /\ ModelN > 1 /\ ModelTargetDim > 1
    /\ CallArgs.horizons = Some(<<1>>)
    /\ CallArgs.target_names = Some(<<ModelTargets[1]>>)
    /\ DOMAIN call.result.v.items[2] = {1}

====
